---- MODULE Spec2Model ----
(***************************************************************************)
(* A model of the vaem filesystem backends (S3, Azure, BunnyCDN, Local)    *)
(* that present one directory/file contract over different stores.         *)
(*                                                                         *)
(* Strings are sequences of one-character strings, so that path            *)
(* resolution, basename, dirname and join are computed the way Node's      *)
(* posix path module computes them.                                        *)
(***************************************************************************)
EXTENDS Integers, Sequences, FiniteSets, TLC

\* ------------------------------------------------------------------------
\* Strings and Node's posix path module
\* ------------------------------------------------------------------------

Sep == "/"
Empty == << >>
Root == <<Sep>>

\* String.prototype.substr(1)
Substr1(s) == IF Len(s) = 0 THEN Empty ELSE Tail(s)

StartsWith(s, pre) == Len(s) >= Len(pre) /\ SubSeq(s, 1, Len(pre)) = pre

RECURSIVE SplitAcc(_, _, _, _)
SplitAcc(p, i, cur, acc) ==
  IF i > Len(p) THEN Append(acc, cur)
  ELSE IF p[i] = Sep THEN SplitAcc(p, i + 1, Empty, Append(acc, cur))
       ELSE SplitAcc(p, i + 1, Append(cur, p[i]), acc)

\* String.prototype.split('/')
Split(p) == SplitAcc(p, 1, Empty, << >>)

RECURSIVE JoinSegs(_)
JoinSegs(segs) ==
  IF Len(segs) = 0 THEN Empty
  ELSE IF Len(segs) = 1 THEN segs[1]
       ELSE segs[1] \o <<Sep>> \o JoinSegs(Tail(segs))

Dot == <<".">>
DotDot == <<".", ".">>

RECURSIVE NormSegs(_, _, _)
NormSegs(segs, res, allowAboveRoot) ==
  IF Len(segs) = 0 THEN res
  ELSE LET s == Head(segs)
           rest == Tail(segs)
       IN IF s = Empty \/ s = Dot THEN NormSegs(rest, res, allowAboveRoot)
          ELSE IF s = DotDot
               THEN IF Len(res) > 0 /\ res[Len(res)] # DotDot
                    THEN NormSegs(rest, SubSeq(res, 1, Len(res) - 1), allowAboveRoot)
                    ELSE IF allowAboveRoot
                         THEN NormSegs(rest, Append(res, DotDot), allowAboveRoot)
                         ELSE NormSegs(rest, res, allowAboveRoot)
               ELSE NormSegs(rest, Append(res, s), allowAboveRoot)

\* path.normalizeString: collapse "", "." and ".." segments
normalizeString(p, allowAboveRoot) == JoinSegs(NormSegs(Split(p), << >>, allowAboveRoot))

IsAbsolute(p) == Len(p) > 0 /\ p[1] = Sep

\* process.cwd() of the server process: some absolute directory
ProcessCwd == <<Sep, "w">>

\* path.resolve(from, to)
resolve(from, to) ==
  LET t == IF Len(to) = 0 THEN Empty ELSE to \o <<Sep>>
      f == IF IsAbsolute(to) \/ Len(from) = 0 THEN t ELSE from \o <<Sep>> \o t
      c == IF IsAbsolute(f) THEN f ELSE ProcessCwd \o <<Sep>> \o f
  IN <<Sep>> \o normalizeString(c, FALSE)

\* path.normalize(p)
normalize(p) ==
  IF Len(p) = 0 THEN Dot
  ELSE LET abs == IsAbsolute(p)
           trailing == p[Len(p)] = Sep
           n == normalizeString(p, ~abs)
       IN IF Len(n) = 0
          THEN (IF abs THEN Root ELSE IF trailing THEN <<".", Sep>> ELSE Dot)
          ELSE (IF abs THEN <<Sep>> ELSE Empty) \o n \o (IF trailing THEN <<Sep>> ELSE Empty)

\* path.join(a, b)
join(a, b) ==
  IF Len(a) = 0 /\ Len(b) = 0 THEN Dot
  ELSE IF Len(a) = 0 THEN normalize(b)
       ELSE IF Len(b) = 0 THEN normalize(a)
            ELSE normalize(a \o <<Sep>> \o b)

RECURSIVE StripTrailingSep(_)
StripTrailingSep(p) ==
  IF Len(p) > 0 /\ p[Len(p)] = Sep THEN StripTrailingSep(SubSeq(p, 1, Len(p) - 1)) ELSE p

\* path.basename(p): the last segment, trailing separators ignored
basename(p) ==
  LET segs == Split(StripTrailingSep(p))
  IN segs[Len(segs)]

\* the index dirname cuts at: the last separator at position >= 2 that is
\* followed by a non-separator character, 0 when there is none
RECURSIVE DirEnd(_, _, _)
DirEnd(p, i, matchedSlash) ==
  IF i < 2 THEN 0
  ELSE IF p[i] = Sep
       THEN (IF ~matchedSlash THEN i ELSE DirEnd(p, i - 1, matchedSlash))
       ELSE DirEnd(p, i - 1, FALSE)

\* path.dirname(p)
dirname(p) ==
  IF Len(p) = 0 THEN Dot
  ELSE LET hasRoot == p[1] = Sep
           end == DirEnd(p, Len(p), TRUE)
       IN IF end = 0 THEN (IF hasRoot THEN Root ELSE Dot)
          ELSE IF hasRoot /\ end = 2 THEN <<Sep, Sep>>
               ELSE SubSeq(p, 1, end - 1)

\* ------------------------------------------------------------------------
\* Bounds and the small world the model runs in
\* ------------------------------------------------------------------------

\* the largest number of entries the backend puts in one listing page
MaxPage == 2
\* the number of page requests one list call may issue in the model
MaxRequests == 3
\* the number of write channels the model follows
MaxWrites == 1
\* the longest working directory chdir may build in the model
MaxWdLen == 4
\* the largest start offset a write asks for
MaxStart == 1

\* object keys the store may hold, in the store's (lexicographic) listing order
K_ab == <<"a", Sep, "b">>
K_acd == <<"a", Sep, "c", Sep, "d">>
K_acef == <<"a", Sep, "c", Sep, "e", Sep, "f">>
K_ah == <<"a", Sep, "h">>
KeyOrder == <<K_ab, K_acd, K_acef, K_ah>>
Keys == {KeyOrder[i] : i \in 1..Len(KeyOrder)}

\* directory keys of the Local tree, same order
D_a == <<"a">>
D_ac == <<"a", Sep, "c">>
D_ace == <<"a", Sep, "c", Sep, "e">>
NodeOrder == <<D_a, K_ab, D_ac, K_acd, D_ace, K_acef, K_ah>>
DirKeys == {D_a, D_ac, D_ace}

Absent == -1
Sizes == {1, 2}

Backends == {"s3", "azure", "bunnycdn", "local"}
FlatBackends == {"s3", "azure", "bunnycdn"}

\* no continuation token / marker (null, undefined or the empty string)
NoToken == 0

\* the value undefined; a template string prints it as the word
Undefined == <<"undefined">>

VARIABLES
  backend,            \* which backend class the instance is
  config,             \* what the constructor stored: account, key, container, root
  workingDirectory,   \* this.workingDirectory
  objects,            \* the store: key -> size, or Absent
  dirs,               \* physical directories (Local only)
  stack,              \* the running call and the calls it awaits, innermost last
  ret,                \* outcome of the last finished call
  channels,           \* the streams write has returned, with their upload tasks
  pendingCopy,        \* Azure server-side copies that have started and not finished
  listCache           \* BunnyCDN this.listCache: requested path -> listing

vars == <<backend, config, workingDirectory, objects, dirs, stack, ret, channels, pendingCopy, listCache>>

\* ------------------------------------------------------------------------
\* FileStat
\* ------------------------------------------------------------------------

\* getStats(name, properties = null): S_IFDIR when there are no properties,
\* S_IFREG otherwise; size 0 for a directory. (Times are not modelled.)
NoProps == [present |-> FALSE, size |-> 0, isDirectory |-> FALSE]
Props(size) == [present |-> TRUE, size |-> size, isDirectory |-> FALSE]

getStats(name, properties) ==
  [name |-> basename(name),
   kind |-> IF ~properties.present THEN "dir" ELSE "file",
   size |-> IF properties.present THEN properties.size ELSE 0]

\* BunnyCDNFileSystem.getStats: a directory also when the entry says IsDirectory
BunnyGetStats(name, properties) ==
  [name |-> basename(name),
   kind |-> IF ~properties.present \/ properties.isDirectory THEN "dir" ELSE "file",
   size |-> IF properties.present THEN properties.size ELSE 0]

\* ------------------------------------------------------------------------
\* Path Resolver
\* ------------------------------------------------------------------------

resolvePathIn_NoSubstr(b, wd, path) ==
  IF b = "azure" THEN resolve(wd, path)
  ELSE IF b = "local" THEN resolve(Root, path)
  ELSE resolve(IF Len(wd) = 0 THEN Root ELSE wd, path)

\* resolvePath(path): S3 and BunnyCDN fall back to '/' for an empty working
\* directory, Azure passes it as it is
resolvePathIn(b, wd, path) ==
  IF b = "azure" THEN Substr1(resolve(wd, path))
  ELSE IF b = "local" THEN Substr1(resolve(Root, path))
  ELSE Substr1(resolve(IF Len(wd) = 0 THEN Root ELSE wd, path))

resolvePath(path) == resolvePathIn(backend, workingDirectory, path)

\* ------------------------------------------------------------------------
\* The stores' native listing calls
\* ------------------------------------------------------------------------

RECURSIVE ListingAcc(_, _, _, _)
ListingAcc(objs, Prefix, i, acc) ==
  IF i > Len(KeyOrder) THEN acc
  ELSE LET key == KeyOrder[i] IN
       IF objs[key] = Absent \/ ~StartsWith(key, Prefix) \/ key = Prefix
       THEN ListingAcc(objs, Prefix, i + 1, acc)
       ELSE LET rest == SubSeq(key, Len(Prefix) + 1, Len(key))
                segs == Split(rest)
                e == IF Len(segs) > 1
                     THEN [prefix |-> TRUE, key |-> Prefix \o segs[1] \o <<Sep>>, size |-> 0]
                     ELSE [prefix |-> FALSE, key |-> key, size |-> objs[key]]
            IN IF Len(acc) > 0 /\ acc[Len(acc)] = e
               THEN ListingAcc(objs, Prefix, i + 1, acc)
               ELSE ListingAcc(objs, Prefix, i + 1, Append(acc, e))

\* what a delimiter-'/' listing of Prefix holds, in key order: one entry per
\* object directly under Prefix and one per common prefix below it
Listing(objs, Prefix) == ListingAcc(objs, Prefix, 1, << >>)

IsPrefixEntry(e) == e.prefix
IsObjectEntry(e) == ~e.prefix

Min(a, b) == IF a < b THEN a ELSE b

\* one page of a listing: n entries from the position the token names
PageOf(all, token, n) == SubSeq(all, token + 1, Min(token + n, Len(all)))

\* s3.listObjectsV2({Prefix, Delimiter: '/', ContinuationToken}): the
\* response echoes the request's token as ContinuationToken and names the
\* next page in NextContinuationToken
listObjectsV2(objs, Prefix, token, n) ==
  LET all == Listing(objs, Prefix)
      page == PageOf(all, token, n)
      more == token + n < Len(all)
  IN [CommonPrefixes |-> SelectSeq(page, IsPrefixEntry),
      Contents |-> SelectSeq(page, IsObjectEntry),
      IsTruncated |-> more,
      ContinuationToken |-> token,
      NextContinuationToken |-> IF more THEN token + n ELSE NoToken]

\* containerURL.listBlobHierarchySegment(aborter, '/', marker, {prefix}): the
\* response echoes the request's marker as marker and names the next page
\* in nextMarker
listBlobHierarchySegment(objs, prefix, marker, n) ==
  LET all == Listing(objs, prefix)
      page == PageOf(all, marker, n)
      more == marker + n < Len(all)
  IN [blobPrefixes |-> SelectSeq(page, IsPrefixEntry),
      blobItems |-> SelectSeq(page, IsObjectEntry),
      marker |-> marker,
      nextMarker |-> IF more THEN marker + n ELSE NoToken]

\* the prefix the list calls ask for
ListPrefix(resolved) == IF Len(resolved) > 0 THEN resolved \o <<Sep>> ELSE Empty

\* ------------------------------------------------------------------------
\* Calls
\* ------------------------------------------------------------------------

Frame(fn, pc, a, b) ==
  [fn |-> fn, pc |-> pc, a |-> a, b |-> b,
   resolved |-> resolvePath(a), result |-> << >>, token |-> NoToken,
   reqs |-> << >>, files |-> << >>, i |-> 1, pre |-> objects, acked |-> FALSE]

NoRet == [fn |-> "none", a |-> Empty, b |-> Empty, status |-> "none", value |-> << >>,
          resolved |-> Empty, reqs |-> << >>, pre |-> objects, acked |-> FALSE,
          append |-> FALSE, start |-> 0, pc |-> "none", failed |-> FALSE, cached |-> FALSE,
          listed |-> Empty]

Idle == Len(stack) = 0
Top == stack[Len(stack)]
Pop(stk) == SubSeq(stk, 1, Len(stk) - 1)

RetOf(f, status, value) ==
  [fn |-> f.fn, a |-> f.a, b |-> f.b, status |-> status, value |-> value,
   resolved |-> f.resolved, reqs |-> f.reqs, pre |-> f.pre, acked |-> f.acked,
   append |-> FALSE, start |-> 0, pc |-> f.pc, failed |-> FALSE, cached |-> FALSE,
   listed |-> Empty]

\* the awaiting caller resumes with the value of the call it awaited
Deliver(stk, value) ==
  IF Len(stk) = 0 THEN stk
  ELSE LET c == stk[Len(stk)] IN
       [stk EXCEPT ![Len(stk)] =
          IF c.pc = "list" THEN [c EXCEPT !.files = value, !.i = 1, !.pc = "loop"]
          ELSE [c EXCEPT !.i = c.i + 1, !.pc = "loop"]]

\* the innermost call returns value
ReturnOk(value) ==
  /\ stack' = Deliver(Pop(stack), value)
  /\ ret' = IF Len(stack) = 1 THEN RetOf(Top, "ok", value) ELSE ret

\* the innermost call throws; no caller catches, so the outermost call rejects
Throw ==
  /\ stack' = << >>
  /\ ret' = RetOf(stack[1], "fail", << >>)

\* ------------------------------------------------------------------------
\* chdir
\* ------------------------------------------------------------------------

ChdirPaths == {Root, <<Sep, "a">>, <<"a">>, <<Sep, "a", Sep, "c">>}

chdirResult(b, wd, path) ==
  IF b = "azure" THEN path ELSE <<Sep>> \o resolvePathIn(b, wd, path)

chdir(path) ==
  /\ Idle
  /\ backend \in FlatBackends
  /\ Len(chdirResult(backend, workingDirectory, path)) <= MaxWdLen
  /\ workingDirectory' = chdirResult(backend, workingDirectory, path)
  /\ ret' = [NoRet EXCEPT !.fn = "chdir", !.a = path, !.status = "ok"]
  /\ UNCHANGED <<backend, config, objects, dirs, stack, channels, pendingCopy, listCache>>

\* the paths a caller may ask to have resolved: empty, absolute, relative,
\* with '.' and '..' segments, with doubled and trailing separators
ResolveArgs == {Empty, Root, <<Sep, "a", Sep, "b">>, <<"a">>, DotDot, <<".", Sep, "a">>,
                <<"a", Sep, ".", ".", Sep, "b">>, <<Sep, "a", Sep, Sep, "b", Sep>>,
                <<".", ".", Sep, ".", ".", Sep, "b">>}

\* a call of this.resolvePath(path), as every operation makes first
resolvePathCall(path) ==
  /\ Idle
  /\ backend \in FlatBackends
  /\ ret' = [NoRet EXCEPT !.fn = "resolvePath", !.a = path, !.status = "ok",
                          !.resolved = resolvePath(path), !.value = <<resolvePath(path)>>]
  /\ UNCHANGED <<backend, config, workingDirectory, objects, dirs, stack, channels, pendingCopy, listCache>>

\* ------------------------------------------------------------------------
\* list on S3 and Azure
\* ------------------------------------------------------------------------

ListPaths == {Root, <<Sep, "a">>, <<"a">>, <<Sep, "a", Sep, "c">>}

S3PrefixStat(e) == getStats(basename(e.key), NoProps)
S3ContentStat(e) == getStats(basename(e.key), Props(e.size))

\* what one iteration of the S3 loop makes of a response
S3ListStep(f, response, n) ==
  [f EXCEPT !.result = f.result \o [i \in 1..Len(response.CommonPrefixes) |-> S3PrefixStat(response.CommonPrefixes[i])]
                                \o [i \in 1..Len(response.Contents) |-> S3ContentStat(response.Contents[i])],
            !.token = response.ContinuationToken,
            !.reqs = Append(f.reqs, [token |-> f.token, n |-> n])]

AzurePrefixStat(e) == getStats(SubSeq(e.key, 1, Len(e.key) - 1), NoProps)
AzureItemStat(e) == getStats(e.key, Props(e.size))

\* what one iteration of the Azure loop makes of a response
AzureListStep(f, response, n) ==
  [f EXCEPT !.result = f.result \o [i \in 1..Len(response.blobPrefixes) |-> AzurePrefixStat(response.blobPrefixes[i])]
                                \o [i \in 1..Len(response.blobItems) |-> AzureItemStat(response.blobItems[i])],
            !.token = response.marker,
            !.reqs = Append(f.reqs, [token |-> f.token, n |-> n])]

\* list(path) up to its first await
list(path) ==
  /\ Idle
  /\ backend \in {"s3", "azure", "local"}
  /\ stack' = <<Frame("list", "request", path, Empty)>>
  /\ ret' = NoRet
  /\ UNCHANGED <<backend, config, workingDirectory, objects, dirs, channels, pendingCopy, listCache>>

\* one listObjectsV2 request and the loop body that follows it
S3ListRequest ==
  /\ ~Idle /\ backend = "s3" /\ Top.fn = "list" /\ Top.pc = "request"
  /\ Len(Top.reqs) < MaxRequests
  /\ \E n \in 1..MaxPage :
       LET response == listObjectsV2(objects, ListPrefix(Top.resolved), Top.token, n)
           f == S3ListStep(Top, response, n)
       IN IF response.IsTruncated
          THEN /\ stack' = [stack EXCEPT ![Len(stack)] = f]
               /\ ret' = ret
          ELSE /\ stack' = Deliver(Pop(stack), f.result)
               /\ ret' = IF Len(stack) = 1 THEN RetOf(f, "ok", f.result) ELSE ret
  /\ UNCHANGED <<backend, config, workingDirectory, objects, dirs, channels, pendingCopy, listCache>>

\* one listBlobHierarchySegment request and the loop body that follows it
AzureListRequest ==
  /\ ~Idle /\ backend = "azure" /\ Top.fn = "list" /\ Top.pc = "request"
  /\ Len(Top.reqs) < MaxRequests
  /\ \E n \in 1..MaxPage :
       LET response == listBlobHierarchySegment(objects, ListPrefix(Top.resolved), Top.token, n)
           f == AzureListStep(Top, response, n)
       IN IF f.token # NoToken
          THEN /\ stack' = [stack EXCEPT ![Len(stack)] = f]
               /\ ret' = ret
          ELSE /\ stack' = Deliver(Pop(stack), f.result)
               /\ ret' = IF Len(stack) = 1 THEN RetOf(f, "ok", f.result) ELSE ret
  /\ UNCHANGED <<backend, config, workingDirectory, objects, dirs, channels, pendingCopy, listCache>>

\* a list request fails in transport: the call rejects
ListRequestFails ==
  /\ ~Idle /\ Top.fn = "list" /\ Top.pc = "request"
  /\ Len(Top.reqs) < MaxRequests
  /\ Throw
  /\ UNCHANGED <<backend, config, workingDirectory, objects, dirs, channels, pendingCopy, listCache>>

\* ------------------------------------------------------------------------
\* write and its upload task
\* ------------------------------------------------------------------------

WritePaths == {<<Sep, "a", Sep, "b">>, <<"a", Sep, "h">>}

writeRejects_AppendOnly(b, append, start) == b \in {"s3", "bunnycdn"} /\ append

\* if (append || start) throw: only S3 and BunnyCDN have the check
writeRejects(b, append, start) == b \in {"s3", "bunnycdn"} /\ (append \/ start # 0)

\* the upload task write starts: it drains the stream into the object at key
UploadTask(key, append, start, content) ==
  [key |-> key, append |-> append, start |-> start, content |-> content,
   task |-> "pending", events |-> << >>]

\* write(fileName, {append, start}): no await before it returns
write(fileName, append, start, content) ==
  /\ Idle
  /\ backend \in FlatBackends
  /\ resolvePath(fileName) \in Keys
  /\ writeRejects(backend, append, start) \/ Len(channels) < MaxWrites
  /\ IF writeRejects(backend, append, start)
     THEN /\ channels' = channels
          /\ ret' = [NoRet EXCEPT !.fn = "write", !.a = fileName, !.status = "fail",
                                  !.resolved = resolvePath(fileName),
                                  !.append = append, !.start = start]
     ELSE /\ channels' = Append(channels, UploadTask(resolvePath(fileName), append, start, content))
          /\ ret' = [NoRet EXCEPT !.fn = "write", !.a = fileName, !.status = "ok",
                                  !.resolved = resolvePath(fileName),
                                  !.append = append, !.start = start]
  /\ UNCHANGED <<backend, config, workingDirectory, objects, dirs, stack, pendingCopy, listCache>>

\* what the stream is made to emit when the upload succeeds:
\* S3 has no then(), Azure emits 'done', BunnyCDN emits 'done'
uploadResolved(b) == IF b = "s3" THEN << >> ELSE <<"done">>

uploadRejected_LogOnly(b) == IF b = "s3" THEN << >> ELSE <<"error">>

\* what the stream is made to emit when the upload fails: every catch()
\* emits 'error'; BunnyCDN's then() follows its catch() and emits 'done' too
uploadRejected(b) == IF b = "bunnycdn" THEN <<"error", "done">> ELSE <<"error">>

\* the upload task stores the whole object and resolves
UploadSucceeds(i) ==
  /\ channels[i].task = "pending"
  /\ objects' = [objects EXCEPT ![channels[i].key] = channels[i].content]
  /\ channels' = [channels EXCEPT ![i].task = "ok",
                                  ![i].events = @ \o uploadResolved(backend)]
  /\ UNCHANGED <<backend, config, workingDirectory, dirs, stack, ret, pendingCopy, listCache>>

\* the upload task rejects
UploadFails(i) ==
  /\ channels[i].task = "pending"
  /\ channels' = [channels EXCEPT ![i].task = "failed",
                                  ![i].events = @ \o uploadRejected(backend)]
  /\ UNCHANGED <<backend, config, workingDirectory, objects, dirs, stack, ret, pendingCopy, listCache>>

\* ------------------------------------------------------------------------
\* get (stat)
\* ------------------------------------------------------------------------

SizeAt(objs, key) == IF key \in Keys THEN objs[key] ELSE Absent

\* s3.headObject({Key}) / blobURL.getProperties(): the object's properties,
\* or a rejection when there is no object at key or the transport fails
nativeProperties(objs, key, fails) ==
  IF fails \/ SizeAt(objs, key) = Absent
  THEN [ok |-> FALSE, props |-> NoProps]
  ELSE [ok |-> TRUE, props |-> Props(SizeAt(objs, key))]

S3get_Propagates(objs, wd, fileName, fails) ==
  LET Key == resolvePathIn("s3", wd, fileName)
      response == nativeProperties(objs, Key, fails)
  IN IF Len(Key) > 0 /\ ~response.ok
     THEN [status |-> "fail", value |-> << >>]
     ELSE [status |-> "ok",
           value |-> <<getStats(fileName, IF Len(Key) > 0 THEN response.props ELSE NoProps)>>]

\* S3FileSystem.get: headObject unless the key is empty; a rejection is
\* swallowed and leaves response null
S3get(objs, wd, fileName, fails) ==
  LET Key == resolvePathIn("s3", wd, fileName)
      response == IF Len(Key) > 0 THEN nativeProperties(objs, Key, fails)
                  ELSE [ok |-> TRUE, props |-> NoProps]
  IN [status |-> "ok",
      value |-> <<getStats(fileName, IF response.ok THEN response.props ELSE NoProps)>>]

Azureget_Propagates(objs, wd, fileName, fails) ==
  LET r == nativeProperties(objs, resolvePathIn("azure", wd, fileName), fails)
  IN IF r.ok THEN [status |-> "ok", value |-> <<getStats(fileName, r.props)>>]
     ELSE [status |-> "fail", value |-> << >>]

\* AzureFileSystem.get: a rejection of getProperties is swallowed and leaves
\* properties undefined
Azureget(objs, wd, fileName, fails) ==
  LET r == nativeProperties(objs, resolvePathIn("azure", wd, fileName), fails)
  IN [status |-> "ok",
      value |-> <<getStats(fileName, IF r.ok THEN r.props ELSE NoProps)>>]

\* axios.get(`${resolved}/`): the entries directly under the directory
BunnyEntry(e) ==
  [ObjectName |-> basename(e.key), IsDirectory |-> e.prefix, Length |-> e.size]

BunnyListing(objs, resolved) ==
  LET all == Listing(objs, ListPrefix(resolved))
  IN [i \in 1..Len(all) |-> BunnyEntry(all[i])]

BunnyStat(entry) ==
  BunnyGetStats(entry.ObjectName,
                [present |-> TRUE, size |-> entry.Length, isDirectory |-> entry.IsDirectory])

\* BunnyCDNFileSystem.list's result for a response
Bunnylist(objs, wd, path) ==
  LET data == BunnyListing(objs, resolvePathIn("bunnycdn", wd, path))
  IN [i \in 1..Len(data) |-> BunnyStat(data[i])]

CacheHas_Never(cache, key) == FALSE

\* listCache.get(key) is not undefined
CacheHas(cache, key) == \E c \in cache : c.path = key
CacheGet(cache, key) == (CHOOSE c \in cache : c.path = key).list
\* an entry also remembers which directory its listing was requested from
CacheDir(cache, key) == (CHOOSE c \in cache : c.path = key).dir
CacheSet(cache, key, l, dir) ==
  {c \in cache : c.path # key} \cup {[path |-> key, list |-> l, dir |-> dir]}

\* list.find(entry => entry.name === base)
Find(l, base) ==
  LET hits == SelectSeq(l, LAMBDA st : st.name = base)
  IN IF Len(hits) = 0 THEN << >> ELSE <<hits[1]>>

GetPaths == {<<Sep, "a", Sep, "b">>, <<"a", Sep, "c", Sep>>, <<Sep, "a", Sep, "x">>, <<"h">>}

\* get(fileName) on S3 and Azure: one native metadata call
get(fileName) ==
  /\ Idle
  /\ backend \in {"s3", "azure"}
  /\ \E fails \in BOOLEAN :
       LET r == IF backend = "s3" THEN S3get(objects, workingDirectory, fileName, fails)
                ELSE Azureget(objects, workingDirectory, fileName, fails)
           key == resolvePath(fileName)
       IN ret' = [NoRet EXCEPT !.fn = "get", !.a = fileName, !.resolved = key,
                               !.status = r.status, !.value = r.value,
                               !.failed = (Len(key) > 0 \/ backend = "azure")
                                          /\ (fails \/ SizeAt(objects, key) = Absent)]
  /\ UNCHANGED <<backend, config, workingDirectory, objects, dirs, stack, channels, pendingCopy, listCache>>

\* BunnyCDNFileSystem.get: the cached listing of dirname(fileName), or a
\* fresh one (which list stores in the cache), searched for the base name
Bunnyget(fileName) ==
  /\ Idle
  /\ backend = "bunnycdn"
  /\ LET dir == dirname(fileName)
         base == basename(fileName)
         out == [NoRet EXCEPT !.fn = "get", !.a = fileName, !.resolved = resolvePath(fileName)]
     IN IF CacheHas(listCache, dir)
        THEN /\ ret' = [out EXCEPT !.status = "ok", !.cached = TRUE,
                                   !.listed = CacheDir(listCache, dir),
                                   !.value = Find(CacheGet(listCache, dir), base)]
             /\ listCache' = listCache
        ELSE \E fails \in BOOLEAN :
               IF fails
               THEN /\ ret' = [out EXCEPT !.status = "fail", !.failed = TRUE]
                    /\ listCache' = listCache
               ELSE LET l == Bunnylist(objects, workingDirectory, dir)
                    IN /\ ret' = [out EXCEPT !.status = "ok", !.value = Find(l, base),
                                              !.listed = resolvePath(dir)]
                       /\ listCache' = CacheSet(listCache, dir, l, resolvePath(dir))
  /\ UNCHANGED <<backend, config, workingDirectory, objects, dirs, stack, channels, pendingCopy>>

\* BunnyCDNFileSystem.list(path): one GET, the result cached under path
BunnyListCall(path) ==
  /\ Idle
  /\ backend = "bunnycdn"
  /\ \E fails \in BOOLEAN :
       LET out == [NoRet EXCEPT !.fn = "list", !.a = path, !.resolved = resolvePath(path)]
           l == Bunnylist(objects, workingDirectory, path)
       IN IF fails
          THEN ret' = [out EXCEPT !.status = "fail", !.failed = TRUE] /\ listCache' = listCache
          ELSE ret' = [out EXCEPT !.status = "ok", !.value = l]
               /\ listCache' = CacheSet(listCache, path, l, resolvePath(path))
  /\ UNCHANGED <<backend, config, workingDirectory, objects, dirs, stack, channels, pendingCopy>>

\* a cached listing reaches its TTL (stdTTL: 60) and is dropped
CacheExpires ==
  /\ \E c \in listCache : listCache' = listCache \ {c}
  /\ UNCHANGED <<backend, config, workingDirectory, objects, dirs, stack, ret, channels, pendingCopy>>

\* ------------------------------------------------------------------------
\* writeFile and readFile
\* ------------------------------------------------------------------------

\* writeFile(fileName, content): write(fileName) hands back the stream at
\* once; the content is pushed into it and writeFile returns, the upload
\* task still running
writeFile(fileName, content) ==
  /\ Idle
  /\ backend \in FlatBackends
  /\ resolvePath(fileName) \in Keys
  /\ Len(channels) < MaxWrites
  /\ channels' = Append(channels, UploadTask(resolvePath(fileName), FALSE, 0, content))
  /\ ret' = [NoRet EXCEPT !.fn = "writeFile", !.a = fileName, !.status = "ok",
                          !.resolved = resolvePath(fileName), !.value = <<content>>]
  /\ UNCHANGED <<backend, config, workingDirectory, objects, dirs, stack, pendingCopy, listCache>>

\* readFile(fileName): the whole object read() streams, a rejection when
\* there is no object at the key or the transport fails
readFile(fileName) ==
  /\ Idle
  /\ backend \in FlatBackends
  /\ \E fails \in BOOLEAN :
       LET key == resolvePath(fileName)
           out == [NoRet EXCEPT !.fn = "readFile", !.a = fileName, !.resolved = key]
       IN ret' = IF fails THEN [out EXCEPT !.status = "fail", !.failed = TRUE]
                 ELSE IF SizeAt(objects, key) = Absent THEN [out EXCEPT !.status = "fail"]
                 ELSE [out EXCEPT !.status = "ok", !.value = <<SizeAt(objects, key)>>]
  /\ UNCHANGED <<backend, config, workingDirectory, objects, dirs, stack, channels, pendingCopy, listCache>>

\* ------------------------------------------------------------------------
\* delete
\* ------------------------------------------------------------------------

\* the native delete of one object: S3 deleteObject succeeds also for a
\* missing key, Azure and BunnyCDN reject for a missing object, Local
\* (unlink, or rmdir for a directory) rejects for a missing file and for a
\* directory that is not empty
NativeDelete(b, objs, ds, key, fails) ==
  LET present == SizeAt(objs, key) # Absent
      without == IF present THEN [objs EXCEPT ![key] = Absent] ELSE objs
      emptyDir == key \in ds /\ ~\E k \in Keys \cup ds : k # key /\ StartsWith(k, key \o <<Sep>>)
                                    /\ (k \in ds \/ objs[k] # Absent)
  IN IF fails THEN [ok |-> FALSE, objects |-> objs, dirs |-> ds]
     ELSE IF b = "s3" THEN [ok |-> TRUE, objects |-> without, dirs |-> ds]
     ELSE IF b = "local" /\ ~present
          THEN (IF emptyDir THEN [ok |-> TRUE, objects |-> objs, dirs |-> ds \ {key}]
                ELSE [ok |-> FALSE, objects |-> objs, dirs |-> ds])
     ELSE [ok |-> present, objects |-> without, dirs |-> ds]

DeletePaths == {<<Sep, "a", Sep, "b">>, <<"a", Sep, "h">>}

\* delete(path): one native call
delete(path) ==
  /\ Idle
  /\ \E fails \in BOOLEAN :
       LET r == NativeDelete(backend, objects, dirs, resolvePath(path), fails)
       IN /\ objects' = r.objects
          /\ dirs' = r.dirs
          /\ ret' = [NoRet EXCEPT !.fn = "delete", !.a = path, !.resolved = resolvePath(path),
                                  !.status = IF r.ok THEN "ok" ELSE "fail", !.failed = ~r.ok]
  /\ UNCHANGED <<backend, config, workingDirectory, stack, channels, pendingCopy, listCache>>

\* ------------------------------------------------------------------------
\* rename
\* ------------------------------------------------------------------------

\* params.Bucket of the S3 client: the bucket every request goes to
Bucket == <<"k">>

\* s3.copyObject({Key, CopySource}): S3 reads CopySource as
\* <source bucket>/<source key>. The size of the object it names, or Absent;
\* foreign is what some other bucket of that name holds at that key.
copySourceObject(objs, CopySource, foreign) ==
  LET segs == Split(CopySource)
  IN IF segs[1] = Bucket THEN SizeAt(objs, JoinSegs(Tail(segs))) ELSE foreign

RenamePairs == {<<<<Sep, "a", Sep, "b">>, <<Sep, "a", Sep, "h">>>>,
                <<<<"a", Sep, "h">>, <<"a", Sep, "b">>>>}

\* rename(from, to) up to its first await
rename(from, to) ==
  /\ Idle
  /\ backend \in {"s3", "azure"}
  /\ stack' = <<Frame("rename", "copy", from, to)>>
  /\ ret' = NoRet
  /\ UNCHANGED <<backend, config, workingDirectory, objects, dirs, channels, pendingCopy, listCache>>

\* S3: await copyObject(...).promise()
S3RenameCopy ==
  /\ ~Idle /\ backend = "s3" /\ Top.fn = "rename" /\ Top.pc = "copy"
  /\ \E fails \in BOOLEAN, foreign \in {Absent} \cup Sizes :
       LET src == copySourceObject(objects, resolvePath(Top.a), foreign)
       IN IF fails \/ src = Absent
          THEN Throw /\ objects' = objects
          ELSE /\ objects' = [objects EXCEPT ![resolvePath(Top.b)] = src]
               /\ stack' = [stack EXCEPT ![Len(stack)].pc = "delete"]
               /\ ret' = ret
  /\ UNCHANGED <<backend, config, workingDirectory, dirs, channels, pendingCopy, listCache>>

\* S3: await this.s3.deleteObject({Key}): the request is built, but neither
\* promise() nor send() is called on it, so nothing is sent; rename returns
S3RenameDelete ==
  /\ ~Idle /\ backend = "s3" /\ Top.fn = "rename" /\ Top.pc = "delete"
  /\ ReturnOk(<< >>)
  /\ UNCHANGED <<backend, config, workingDirectory, objects, dirs, channels, pendingCopy, listCache>>

\* Azure: await destinationBlobURL.startCopyFromURL(): the copy has started;
\* it has finished, or goes on in the service with the destination empty
AzureRenameCopy ==
  /\ ~Idle /\ backend = "azure" /\ Top.fn = "rename" /\ Top.pc = "copy"
  /\ \E fails \in BOOLEAN, pending \in BOOLEAN :
       LET src == SizeAt(objects, Top.resolved)
           to == resolvePath(Top.b)
       IN IF fails \/ src = Absent
          THEN Throw /\ objects' = objects /\ pendingCopy' = pendingCopy
          ELSE /\ objects' = [objects EXCEPT ![to] = IF pending THEN 0 ELSE src]
               /\ pendingCopy' = IF pending
                                 THEN pendingCopy \cup {[from |-> Top.resolved, to |-> to]}
                                 ELSE pendingCopy
               /\ stack' = [stack EXCEPT ![Len(stack)].pc = "delete"]
               /\ ret' = ret
  /\ UNCHANGED <<backend, config, workingDirectory, dirs, channels, listCache>>

\* Azure: await sourceBlobURL.delete()
AzureRenameDelete ==
  /\ ~Idle /\ backend = "azure" /\ Top.fn = "rename" /\ Top.pc = "delete"
  /\ \E fails \in BOOLEAN :
       LET r == NativeDelete("azure", objects, dirs, Top.resolved, fails)
       IN IF r.ok
          THEN /\ objects' = r.objects
               /\ stack' = << >>
               /\ ret' = RetOf([Top EXCEPT !.acked = TRUE], "ok", << >>)
          ELSE Throw /\ objects' = objects
  /\ UNCHANGED <<backend, config, workingDirectory, dirs, channels, pendingCopy, listCache>>

\* the service finishes a pending copy: the destination gets the source's content
CopyCompletes ==
  /\ \E c \in pendingCopy :
       /\ SizeAt(objects, c.from) # Absent
       /\ objects' = [objects EXCEPT ![c.to] = objects[c.from]]
       /\ pendingCopy' = pendingCopy \ {c}
  /\ UNCHANGED <<backend, config, workingDirectory, dirs, stack, ret, channels, listCache>>

\* the source of a pending copy is gone: the copy fails, the destination stays empty
CopyAborts ==
  /\ \E c \in pendingCopy :
       /\ SizeAt(objects, c.from) = Absent
       /\ pendingCopy' = pendingCopy \ {c}
  /\ UNCHANGED <<backend, config, workingDirectory, objects, dirs, stack, ret, channels, listCache>>

\* ------------------------------------------------------------------------
\* recursivelyDelete
\* ------------------------------------------------------------------------

\* the key of the directory a Local node lies in ('' for the root)
ParentKey(n) == IF dirname(n) = Dot THEN Empty ELSE dirname(n)

LocalExists(objs, ds, n) == n \in ds \/ SizeAt(objs, n) # Absent

LocalStat(objs, ds, n) ==
  [name |-> basename(n),
   kind |-> IF n \in ds THEN "dir" ELSE "file",
   size |-> IF n \in ds THEN 0 ELSE SizeAt(objs, n)]

\* Local list (readdir and a stat of each name): the files and the
\* directories directly in the directory at key
LocalListing(objs, ds, key) ==
  LET here == SelectSeq(NodeOrder, LAMBDA n : ParentKey(n) = key /\ LocalExists(objs, ds, n))
  IN [i \in 1..Len(here) |-> LocalStat(objs, ds, here[i])]

LocalIsDir(ds, key) == Len(key) = 0 \/ key \in ds

\* Local: the one readdir of a list call
LocalListRequest ==
  /\ ~Idle /\ backend = "local" /\ Top.fn = "list" /\ Top.pc = "request"
  /\ IF LocalIsDir(dirs, Top.resolved)
     THEN ReturnOk(LocalListing(objects, dirs, Top.resolved))
     ELSE Throw
  /\ UNCHANGED <<backend, config, workingDirectory, objects, dirs, channels, pendingCopy, listCache>>

RecursivelyDeletePaths == {<<Sep, "a">>, <<"a", Sep, "c">>}

\* FileSystem.recursivelyDelete(dirname) up to its first await, which is
\* inside the list call it makes
recursivelyDelete(dir) ==
  /\ Idle
  /\ backend \in {"s3", "azure", "local"}
  /\ stack' = <<Frame("recursivelyDelete", "list", dir, Empty),
                Frame("list", "request", dir, Empty)>>
  /\ ret' = NoRet
  /\ UNCHANGED <<backend, config, workingDirectory, objects, dirs, channels, pendingCopy, listCache>>

\* one turn of the for loop of recursivelyDelete: recurse into a directory,
\* delete a file, or return when the files are used up
RecursivelyDeleteStep ==
  /\ ~Idle /\ Top.fn = "recursivelyDelete" /\ Top.pc = "loop"
  /\ IF Top.i > Len(Top.files)
     THEN ReturnOk(<< >>) /\ objects' = objects /\ dirs' = dirs
     ELSE LET file == Top.files[Top.i]
              child == join(Top.a, file.name)
          IN IF file.kind = "dir"
             THEN /\ stack' = [stack EXCEPT ![Len(stack)].pc = "recurse"]
                                 \o <<Frame("recursivelyDelete", "list", child, Empty),
                                      Frame("list", "request", child, Empty)>>
                  /\ ret' = ret /\ objects' = objects /\ dirs' = dirs
             ELSE \E fails \in BOOLEAN :
                    LET r == NativeDelete(backend, objects, dirs, resolvePath(child), fails)
                    IN IF r.ok
                       THEN /\ objects' = r.objects /\ dirs' = r.dirs
                            /\ stack' = [stack EXCEPT ![Len(stack)].i = @ + 1]
                            /\ ret' = ret
                       ELSE Throw /\ objects' = objects /\ dirs' = dirs
  /\ UNCHANGED <<backend, config, workingDirectory, channels, pendingCopy, listCache>>

\* BunnyCDNFileSystem.recursivelyDelete: one DELETE of `${resolved}/`, which
\* removes everything below the directory
BunnyRecursivelyDelete(dir) ==
  /\ Idle
  /\ backend = "bunnycdn"
  /\ \E fails \in BOOLEAN :
       LET under == resolvePath(dir) \o <<Sep>>
           out == [NoRet EXCEPT !.fn = "recursivelyDelete", !.a = dir,
                                !.resolved = resolvePath(dir)]
       IN IF fails
          THEN ret' = [out EXCEPT !.status = "fail", !.failed = TRUE] /\ objects' = objects
          ELSE /\ ret' = [out EXCEPT !.status = "ok"]
               /\ objects' = [k \in Keys |-> IF StartsWith(<<Sep>> \o k, <<Sep>> \o under)
                                                \/ under = <<Sep>>
                                             THEN Absent ELSE objects[k]]
  /\ UNCHANGED <<backend, config, workingDirectory, dirs, stack, channels, pendingCopy, listCache>>

\* ------------------------------------------------------------------------
\* Location descriptors and the factory
\* ------------------------------------------------------------------------

Lowers == <<"a", "b", "c", "d", "e", "f", "g", "h", "i", "j", "k", "l", "m",
            "n", "o", "p", "q", "r", "s", "t", "u", "v", "w", "x", "y", "z">>
Uppers == <<"A", "B", "C", "D", "E", "F", "G", "H", "I", "J", "K", "L", "M",
            "N", "O", "P", "Q", "R", "S", "T", "U", "V", "W", "X", "Y", "Z">>
Digits == {"0", "1", "2", "3", "4", "5", "6", "7", "8", "9"}
IsAlpha(c) == \E i \in 1..26 : c \in {Lowers[i], Uppers[i]}
IsSchemeChar(c) == IsAlpha(c) \/ c \in Digits \cup {"+", "-", "."}
IsHex(c) == c \in Digits \cup {"a", "b", "c", "d", "e", "f", "A", "B", "C", "D", "E", "F"}

\* ASCII lower case
ToLower(str) ==
  [i \in 1..Len(str) |->
     IF \E k \in 1..26 : Uppers[k] = str[i]
     THEN Lowers[CHOOSE k \in 1..26 : Uppers[k] = str[i]] ELSE str[i]]

\* the first index from `from` on at which str has one of the characters cs, 0 if none
IndexOf(str, cs, from) ==
  LET I == {i \in from..Len(str) : str[i] \in cs}
  IN IF I = {} THEN 0 ELSE CHOOSE i \in I : \A j \in I : i <= j

LastIndexOf(str, c) ==
  LET I == {i \in 1..Len(str) : str[i] = c}
  IN IF I = {} THEN 0 ELSE CHOOSE i \in I : \A j \in I : i >= j

\* the schemes the URL standard calls special
SpecialSchemes == {<<"f", "i", "l", "e">>, <<"f", "t", "p">>, <<"h", "t", "t", "p">>,
                   <<"h", "t", "t", "p", "s">>, <<"w", "s">>, <<"w", "s", "s">>}

InvalidURL ==
  [ok |-> FALSE, protocol |-> Empty, username |-> Empty, password |-> Empty,
   hostname |-> Empty, pathname |-> Empty]

\* the authority state of the URL parser: userinfo up to the last '@', user
\* name and password split at the first ':', host up to the port; no host
\* is an error with credentials and for a special scheme other than file:
parseAuthority(scheme, authority, path) ==
  LET at == LastIndexOf(authority, "@")
      pw == IndexOf(SubSeq(authority, 1, at - 1), {":"}, 1)
      port == IndexOf(authority, {":"}, at + 1)
      hostEnd == IF port = 0 THEN Len(authority) ELSE port - 1
      special == scheme \in SpecialSchemes
  IN IF hostEnd = at /\ (at > 0 \/ (special /\ scheme # <<"f", "i", "l", "e">>))
     THEN InvalidURL
     ELSE [ok |-> TRUE,
           protocol |-> scheme \o <<":">>,
           username |-> SubSeq(authority, 1, IF pw = 0 THEN at - 1 ELSE pw - 1),
           password |-> IF pw = 0 THEN Empty ELSE SubSeq(authority, pw + 1, at - 1),
           hostname |-> SubSeq(authority, at + 1, hostEnd),
           pathname |-> IF special /\ Len(path) = 0 THEN Root ELSE path]

\* what follows the scheme, query and fragment cut off: '//' starts an
\* authority that ends at the next '/', the rest is the path
parseAfterScheme(scheme, rest) ==
  LET slash == IndexOf(rest, {Sep}, 3)
  IN IF ~StartsWith(rest, <<Sep, Sep>>) THEN parseAuthority(scheme, Empty, rest)
     ELSE IF slash = 0 THEN parseAuthority(scheme, SubSeq(rest, 3, Len(rest)), Empty)
     ELSE parseAuthority(scheme, SubSeq(rest, 3, slash - 1), SubSeq(rest, slash, Len(rest)))

\* new URL(url) without a base: a TypeError when the input has no scheme
\* (or a special scheme other than file: with no host), the parts otherwise.
\* (The descriptors of the model have no '.' or '..' path segments, which a
\* URL parser would remove.)
parseURL(url) ==
  LET colon == IndexOf(url, {":"}, 1)
      cut == IndexOf(url, {"?", "#"}, colon + 1)
  IN IF colon > 1 /\ IsAlpha(url[1]) /\ \A i \in 1..(colon - 1) : IsSchemeChar(url[i])
     THEN parseAfterScheme(ToLower(SubSeq(url, 1, colon - 1)),
                           SubSeq(url, colon + 1, IF cut = 0 THEN Len(url) ELSE cut - 1))
     ELSE InvalidURL

\* decodeURIComponent(str): every %XX replaced by its character (of the
\* escapes, the descriptors of the model use %2F); a URIError when a '%' is
\* not followed by two hexadecimal digits
RECURSIVE decodeURIComponent(_)
decodeURIComponent(str) ==
  IF Len(str) = 0 THEN [ok |-> TRUE, value |-> Empty]
  ELSE IF str[1] # "%"
       THEN LET r == decodeURIComponent(Tail(str))
            IN [ok |-> r.ok, value |-> <<str[1]>> \o r.value]
       ELSE IF Len(str) >= 3 /\ IsHex(str[2]) /\ IsHex(str[3])
            THEN LET r == decodeURIComponent(SubSeq(str, 4, Len(str)))
                     c == IF <<str[2], str[3]>> = <<"2", "F">> THEN Sep ELSE "@"
                 IN [ok |-> r.ok, value |-> <<c>> \o r.value]
            ELSE [ok |-> FALSE, value |-> Empty]

\* the fields the constructors store from their arguments
AzureConfig(azureAccount, azureKey, azureContainer) ==
  [azureAccount |-> azureAccount, azureKey |-> azureKey,
   azureContainer |-> azureContainer, root |-> Undefined, url |-> Undefined]
UrlConfig(url) ==
  [azureAccount |-> Undefined, azureKey |-> Undefined,
   azureContainer |-> Undefined, root |-> Undefined, url |-> url]
LocalConfig(root) ==
  [azureAccount |-> Undefined, azureKey |-> Undefined,
   azureContainer |-> Undefined, root |-> root, url |-> Undefined]

\* location descriptors: s3://u:s@h/k, S3://u:s@h/k, azure://m:s@k,
\* azure://m:%2F@k, azure://m:%zz@k, bunnycdn://s@h/, file:///r, ftp://h/r,
\* and the bare paths /r and r/x
U_s3 == <<"s", "3", ":", Sep, Sep, "u", ":", "s", "@", "h", Sep, "k">>
U_bunnycdn == <<"b", "u", "n", "n", "y", "c", "d", "n", ":", Sep, Sep, "s", "@", "h", Sep>>
Descriptors ==
  {U_s3, U_bunnycdn,
   <<"S", "3", ":", Sep, Sep, "u", ":", "s", "@", "h", Sep, "k">>,
   <<"a", "z", "u", "r", "e", ":", Sep, Sep, "m", ":", "s", "@", "k">>,
   <<"a", "z", "u", "r", "e", ":", Sep, Sep, "m", ":", "%", "2", "F", "@", "k">>,
   <<"a", "z", "u", "r", "e", ":", Sep, Sep, "m", ":", "%", "z", "z", "@", "k">>,
   <<"f", "i", "l", "e", ":", Sep, Sep, Sep, "r">>,
   <<"f", "t", "p", ":", Sep, Sep, "h", Sep, "r">>,
   <<Sep, "r">>,
   <<"r", Sep, "x">>}

\* an instance of each class, constructed directly
DefaultConfig(b) ==
  IF b = "azure" THEN AzureConfig(<<"m">>, <<"s">>, <<"k">>)
  ELSE IF b = "local" THEN LocalConfig(<<Sep, "r">>)
  ELSE IF b = "s3" THEN UrlConfig(U_s3) ELSE UrlConfig(U_bunnycdn)

\* the descriptor is handed over as a string or as a URL object
DescriptorKinds == {<<"string">>, <<"URL">>}

\* url.username: a string has no such property
usernameOf(kind, parsed) == IF kind = <<"URL">> THEN parsed.username ELSE Undefined

NoInstance == [ok |-> FALSE, backend |-> "none", config |-> UrlConfig(Undefined)]

\* fileSystemFromURL(url), parsed being new URL(url): the class chosen by
\* parsed.protocol and what its constructor is given; new URL and
\* decodeURIComponent may throw
fileSystemFromURLOf(url, kind, parsed) ==
  LET key == decodeURIComponent(parsed.password)
  IN IF ~parsed.ok THEN NoInstance
     ELSE IF parsed.protocol = <<"a", "z", "u", "r", "e", ":">>
          THEN (IF ~key.ok THEN NoInstance
                ELSE [ok |-> TRUE, backend |-> "azure",
                      config |-> AzureConfig(usernameOf(kind, parsed), key.value, parsed.hostname)])
     ELSE IF parsed.protocol = <<"s", "3", ":">>
          THEN (IF ~key.ok THEN NoInstance
                ELSE [ok |-> TRUE, backend |-> "s3", config |-> UrlConfig(url)])
     ELSE IF parsed.protocol = <<"b", "u", "n", "n", "y", "c", "d", "n", ":">>
          THEN [ok |-> TRUE, backend |-> "bunnycdn", config |-> UrlConfig(url)]
     ELSE [ok |-> TRUE, backend |-> "local", config |-> LocalConfig(parsed.pathname)]

\* a call of the factory: the instance followed from here on is the one it built
fileSystemFromURL(url, kind) ==
  /\ Idle
  /\ LET r == fileSystemFromURLOf(url, kind, parseURL(url))
         out == [NoRet EXCEPT !.fn = "fileSystemFromURL", !.a = url, !.b = kind]
     IN IF r.ok
        THEN /\ backend' = r.backend /\ config' = r.config
             /\ workingDirectory' = Root
             /\ channels' = << >> /\ listCache' = {}
             /\ ret' = [out EXCEPT !.status = "ok"]
        ELSE /\ UNCHANGED <<backend, config, workingDirectory, channels, listCache>>
             /\ ret' = [out EXCEPT !.status = "fail", !.failed = TRUE]
  /\ UNCHANGED <<objects, dirs, stack, pendingCopy>>

\* ------------------------------------------------------------------------
\* getSignedUrl
\* ------------------------------------------------------------------------

\* the value false
FalseSignal == <<"false">>

\* generateBlobSASQueryParameters(...).toString(): a signed query string for
\* the blob, or for the container when the blob name is empty
generateBlobSASQueryParameters(containerName, blobName) ==
  <<IF Len(blobName) > 0 THEN "sr=b" ELSE "sr=c", "&sig=">> \o containerName \o <<Sep>> \o blobName

getSignedUrlOf_RawName(b, cfg, wd, filename) ==
  IF b = "azure"
  THEN <<"https://">> \o cfg.azureAccount \o <<".blob.core.windows.net/">>
         \o cfg.azureContainer \o <<Sep>> \o filename \o <<"?">>
         \o generateBlobSASQueryParameters(cfg.azureContainer, filename)
  ELSE FalseSignal

\* getSignedUrl(filename): false in the base class, the signed URL on Azure
getSignedUrlOf(b, cfg, wd, filename) ==
  IF b = "azure"
  THEN LET blobName == resolvePathIn("azure", wd, filename)
           containerName == cfg.azureContainer
       IN <<"https://">> \o cfg.azureAccount \o <<".blob.core.windows.net/">>
            \o containerName \o <<Sep>> \o blobName \o <<"?">>
            \o generateBlobSASQueryParameters(containerName, blobName)
  ELSE FalseSignal

SignedUrlPaths == {Root, <<Sep, "a", Sep, "b">>, <<"h">>}

getSignedUrl(filename) ==
  /\ Idle
  /\ ret' = [NoRet EXCEPT !.fn = "getSignedUrl", !.a = filename, !.status = "ok",
                          !.resolved = resolvePath(filename),
                          !.value = <<getSignedUrlOf(backend, config, workingDirectory, filename)>>]
  /\ UNCHANGED <<backend, config, workingDirectory, objects, dirs, stack, channels, pendingCopy, listCache>>

\* ------------------------------------------------------------------------
\* ensureDir
\* ------------------------------------------------------------------------

\* the directory the Local backend is rooted at
RootOf(cfg) == resolve(cfg.root, Empty)

AtOrBelow(dir, root) ==
  dir = root \/ root = Root \/ StartsWith(dir, root \o <<Sep>>)

\* the directories mkdir -p makes sure of below root for dir
MadeBelow(dir, root) ==
  IF ~AtOrBelow(dir, root) \/ dir = root THEN {}
  ELSE LET segs == Split(SubSeq(dir, Len(StripTrailingSep(root)) + 2, Len(dir)))
       IN {JoinSegs(SubSeq(segs, 1, i)) : i \in 1..Len(segs)}

\* if (dirname.startsWith('.')) throw
ensureDirRejects(dir) == StartsWith(dir, Dot)

EnsureDirArgs == {<<"x">>, <<Sep, "x">>, <<"a", Sep, ".", ".", Sep, ".", ".", Sep, "x">>,
                  <<".", Sep, "x">>, <<".", ".", Sep, "x">>, <<".", "x">>, <<"a", Sep, "c">>}

\* ensureDir(dirname): a no-op on the flat backends; on Local the check of
\* the name and fs-extra's ensureDir of resolve(root, dirname)
ensureDir(dir) ==
  /\ Idle
  /\ LET out == [NoRet EXCEPT !.fn = "ensureDir", !.a = dir]
         resolved == resolve(config.root, dir)
     IN IF backend # "local"
        THEN ret' = [out EXCEPT !.status = "ok"] /\ dirs' = dirs
        ELSE IF ensureDirRejects(dir)
             THEN ret' = [out EXCEPT !.status = "fail"] /\ dirs' = dirs
             ELSE \E fails \in BOOLEAN :
                    IF fails
                    THEN ret' = [out EXCEPT !.status = "fail", !.failed = TRUE] /\ dirs' = dirs
                    ELSE /\ ret' = [out EXCEPT !.status = "ok", !.resolved = resolved,
                                                !.value = <<resolved>>]
                         /\ dirs' = dirs \cup MadeBelow(resolved, RootOf(config))
  /\ UNCHANGED <<backend, config, workingDirectory, objects, stack, channels, pendingCopy, listCache>>

\* ------------------------------------------------------------------------
\* Initial states
\* ------------------------------------------------------------------------

\* the directories a set of files lives in
DirsOf(objs) == {d \in DirKeys : \E k \in Keys : objs[k] # Absent /\ StartsWith(k, d \o <<Sep>>)}

\* the stores that hold objects (of size 1) at keys of S only
StoresOver(S) == {o \in [Keys -> {Absent, 1}] : \A k \in Keys \ S : o[k] = Absent}

InitOver(S) ==
  /\ config = DefaultConfig(backend)
  /\ workingDirectory = Root
  /\ objects \in StoresOver(S)
  /\ dirs = IF backend = "local" THEN DirsOf(objects) ELSE {}
  /\ stack = << >>
  /\ ret = NoRet
  /\ channels = << >>
  /\ pendingCopy = {}
  /\ listCache = {}

\* listing on the paginating backends
InitList == backend \in {"s3", "azure"} /\ InitOver(Keys)
NextList == (\E p \in ChdirPaths : chdir(p)) \/ (\E p \in ListPaths : list(p))
              \/ S3ListRequest \/ AzureListRequest \/ ListRequestFails
SpecList == InitList /\ [][NextList]_vars

\* writing on the flat-namespace backends
InitWrite == backend \in FlatBackends /\ InitOver({K_ab, K_ah})
NextWrite == (\E p \in WritePaths, ap \in BOOLEAN, st \in 0..MaxStart, c \in Sizes : write(p, ap, st, c))
               \/ (\E i \in 1..Len(channels) : UploadSucceeds(i))
               \/ (\E i \in 1..Len(channels) : UploadFails(i))
SpecWrite == InitWrite /\ [][NextWrite]_vars

\* stat on the three flat backends
InitGet == backend \in FlatBackends /\ InitOver({K_ab, K_acd})
NextGet == (\E p \in GetPaths : get(p)) \/ (\E p \in GetPaths : Bunnyget(p))
             \/ (\E p \in {<<Sep, "a">>} : BunnyListCall(p))
             \/ (\E p \in {Root, <<Sep, "a">>} : chdir(p))
             \/ (\E p \in DeletePaths : delete(p))
             \/ CacheExpires
SpecGet == InitGet /\ [][NextGet]_vars

\* rename on the object stores
InitRename == backend \in {"s3", "azure"} /\ InitOver({K_ab, K_ah})
NextRename == (\E pr \in RenamePairs : rename(pr[1], pr[2]))
                \/ S3RenameCopy \/ S3RenameDelete \/ AzureRenameCopy \/ AzureRenameDelete
                \/ CopyCompletes \/ CopyAborts
                \/ (\E p \in {Root, <<Sep, "a">>} : chdir(p))
SpecRename == InitRename /\ [][NextRename]_vars

\* recursive delete on every backend
InitDelete == backend \in Backends /\ InitOver(Keys)
NextDelete == (\E d \in RecursivelyDeletePaths : recursivelyDelete(d))
                \/ (\E d \in RecursivelyDeletePaths : BunnyRecursivelyDelete(d))
                \/ RecursivelyDeleteStep
                \/ S3ListRequest \/ AzureListRequest \/ LocalListRequest \/ ListRequestFails
SpecDelete == InitDelete /\ [][NextDelete]_vars

\* the BunnyCDN listing cache under stat, list, chdir and the mutating calls
InitCache == backend = "bunnycdn" /\ InitOver({K_ab, K_ah})
NextCache == (\E p \in {<<Sep, "a", Sep, "b">>, <<"h">>} : Bunnyget(p))
               \/ (\E p \in {<<Sep, "a">>} : BunnyListCall(p))
               \/ (\E p \in {Root, <<Sep, "a">>} : chdir(p))
               \/ (\E p \in {<<Sep, "a", Sep, "b">>} : write(p, FALSE, 0, 2))
               \/ (\E i \in 1..Len(channels) : UploadSucceeds(i))
               \/ (\E i \in 1..Len(channels) : UploadFails(i))
               \/ (\E p \in {<<Sep, "a", Sep, "b">>} : delete(p))
               \/ (\E d \in {<<Sep, "a">>} : BunnyRecursivelyDelete(d))
               \/ CacheExpires
SpecCache == InitCache /\ [][NextCache]_vars

\* the working directory and the path resolver
InitPath == backend \in FlatBackends /\ InitOver({})
NextPath == (\E p \in ChdirPaths : chdir(p)) \/ (\E p \in ResolveArgs : resolvePathCall(p))
SpecPath == InitPath /\ [][NextPath]_vars

\* the factory and what the instances it builds do with their fields
InitFactory == backend \in Backends /\ InitOver({})
NextFactory == (\E u \in Descriptors, kind \in DescriptorKinds : fileSystemFromURL(u, kind))
                 \/ (\E p \in SignedUrlPaths : getSignedUrl(p))
                 \/ (\E d \in EnsureDirArgs : ensureDir(d))
                 \/ (\E p \in {<<Sep, "a">>, <<"a">>} : chdir(p))
SpecFactory == InitFactory /\ [][NextFactory]_vars

\* writeFile, its upload task and readFile
InitWriteFile == backend \in FlatBackends /\ InitOver({K_ab, K_ah})
NextWriteFile == (\E p \in WritePaths, c \in Sizes : writeFile(p, c))
                   \/ (\E p \in WritePaths : readFile(p))
                   \/ (\E i \in 1..Len(channels) : UploadSucceeds(i))
                   \/ (\E i \in 1..Len(channels) : UploadFails(i))
SpecWriteFile == InitWriteFile /\ [][NextWriteFile]_vars

\* ------------------------------------------------------------------------
\* Properties
\* ------------------------------------------------------------------------

Names(stats) == {stats[i].name : i \in 1..Len(stats)}
EntryNames(entries) == {basename(entries[i].key) : i \in 1..Len(entries)}
NoDuplicateNames(stats) ==
  \A i, j \in 1..Len(stats) : i # j => stats[i].name # stats[j].name

\* C1: a list call on S3 or Azure that returns has returned every entry of
\* every page of the directory's listing, and no name twice.
C1_ListIsUnionOfPages ==
  (ret.fn = "list" /\ ret.status = "ok") =>
     /\ Names(ret.value) = EntryNames(Listing(ret.pre, ListPrefix(ret.resolved)))
     /\ NoDuplicateNames(ret.value)

\* the page requests of a list call follow each other: the first carries no
\* token, each next one starts where the previous response ended
RequestsInOrder(reqs) ==
  /\ Len(reqs) > 0 => reqs[1].token = NoToken
  /\ \A i \in 1..(Len(reqs) - 1) : reqs[i + 1].token = reqs[i].token + reqs[i].n

\* C2: an S3 list call requests pages 1..k in order, never the same page
\* twice (so that it ends after k requests).
C2_S3ListRequestsPagesInOrder ==
  backend = "s3" =>
     /\ \A d \in 1..Len(stack) : stack[d].fn = "list" => RequestsInOrder(stack[d].reqs)
     /\ ret.fn = "list" => RequestsInOrder(ret.reqs)

NoPartialUpload ==
  \A i \in 1..Len(channels) : ~channels[i].append /\ channels[i].start = 0

RejectedWriteLeftObject ==
  (ret.fn = "write" /\ (ret.append \/ ret.start # 0)) =>
     /\ ret.status = "fail"
     /\ \/ objects[ret.resolved] = ret.pre[ret.resolved]
        \/ \E i \in 1..Len(channels) :
              channels[i].key = ret.resolved /\ channels[i].task = "ok"

\* C3: on S3 and BunnyCDN a write with append or a nonzero start fails, no
\* upload task exists for it, and the object at the path is what it was
\* (or what an earlier whole-object upload made it).
C3_PartialWriteRejected ==
  backend \in {"s3", "bunnycdn"} => (NoPartialUpload /\ RejectedWriteLeftObject)

C3_Witness ==
  /\ backend = "bunnycdn" /\ ret.fn = "write" /\ ret.start # 0 /\ ~ret.append
  /\ ret.status = "fail" /\ objects[ret.resolved] # Absent

\* C4: on no whole-object backend (S3, Azure, BunnyCDN) is a write with
\* append or a nonzero start turned into a whole-object upload.
C4_NoSilentDowngrade ==
  backend \in FlatBackends => (NoPartialUpload /\ RejectedWriteLeftObject)

\* C5: the stream of an upload task that failed has been made to emit 'error'.
C5_PersistFailureEmitsError ==
  \A i \in 1..Len(channels) :
     channels[i].task = "failed" => \E j \in 1..Len(channels[i].events) : channels[i].events[j] = "error"

C5_Witness ==
  \E i \in 1..Len(channels) : backend = "s3" /\ channels[i].task = "failed"

\* what get(path) answers in the current state when the transport works
statNow(path) ==
  IF backend = "s3" THEN S3get(objects, workingDirectory, path, FALSE).value[1]
  ELSE Azureget(objects, workingDirectory, path, FALSE).value[1]

\* C6: after a successful rename(from, to) of an object of size n on S3 or
\* Azure, no file is at from any more and stat(to) reports a file of size n.
C6_RenameMovesObject ==
  (ret.fn = "rename" /\ ret.status = "ok" /\ SizeAt(ret.pre, ret.resolved) # Absent) =>
     /\ SizeAt(objects, ret.resolved) = Absent
     /\ statNow(ret.a).kind # "file"
     /\ statNow(ret.b) = [name |-> basename(ret.b), kind |-> "file",
                          size |-> SizeAt(ret.pre, ret.resolved)]

\* C7: rename reports success only when the delete of the source has been
\* acknowledged; when the copy succeeded and the delete failed, rename fails
\* and both objects are there.
C7_PartialRenameSurfaces ==
  /\ (ret.fn = "rename" /\ ret.status = "ok") => ret.acked
  /\ (ret.fn = "rename" /\ ret.status = "fail" /\ ret.pc = "delete") =>
        /\ SizeAt(objects, ret.resolved) # Absent
        /\ SizeAt(objects, resolvePath(ret.b)) # Absent

\* what is in the directory at key now
EntriesNow(key) ==
  IF backend = "local"
  THEN (IF LocalIsDir(dirs, key) THEN LocalListing(objects, dirs, key) ELSE << >>)
  ELSE Listing(objects, ListPrefix(key))

\* C8: after a successful recursivelyDelete(d), on every backend, nothing is
\* left to list in d.
C8_RecursivelyDeleteEmpties ==
  (ret.fn = "recursivelyDelete" /\ ret.status = "ok") => EntriesNow(ret.resolved) = << >>

\* neither an object nor an emulated directory is at key
Missing(objs, key) ==
  /\ SizeAt(objs, key) = Absent
  /\ ~\E k \in Keys : objs[k] # Absent /\ StartsWith(k, key \o <<Sep>>)

DirectoryShaped(path) == <<[name |-> basename(path), kind |-> "dir", size |-> 0]>>

\* C9 (as claimed): on S3 and BunnyCDN get of a path with no object gives a
\* not-found failure, never a FileStat.
C9_MissingIsNotFound ==
  (backend \in {"s3", "bunnycdn"} /\ ret.fn = "get" /\ Missing(ret.pre, ret.resolved))
     => (ret.status = "fail" \/ ret.value = << >>)

\* C9 (amended): S3 get never fails and answers a path with no object with
\* a directory FileStat of size 0; BunnyCDN get of a missing path gives no
\* FileStat (or the listing's failure) whenever it fetched the listing
\* fresh instead of taking it from the cache.
C9_MissingOnS3IsDirectory ==
  /\ (backend = "s3" /\ ret.fn = "get") =>
        /\ ret.status = "ok"
        /\ SizeAt(ret.pre, ret.resolved) = Absent => ret.value = DirectoryShaped(ret.a)
  /\ (backend = "bunnycdn" /\ ret.fn = "get" /\ Missing(ret.pre, ret.resolved) /\ ~ret.cached)
        => (ret.status = "fail" \/ ret.value = << >>)

C9_Witness ==
  /\ backend = "s3" /\ ret.fn = "get" /\ Missing(ret.pre, ret.resolved)
  /\ Len(ret.resolved) > 0 /\ ret.value = DirectoryShaped(ret.a)

\* C10: Azure get never rejects, and when getProperties fails it returns a
\* directory FileStat of size 0 named after the base name of the path asked.
C10_AzureGetSwallowsFailure ==
  (backend = "azure" /\ ret.fn = "get") =>
     /\ ret.status = "ok"
     /\ ret.failed => ret.value = DirectoryShaped(ret.a)

C10_Witness ==
  /\ backend = "azure" /\ ret.fn = "get" /\ ret.failed
  /\ ret.a = <<"a", Sep, "c", Sep>> /\ ret.value[1].name = <<"c">>

C12_WorkingDirectoryAbsolute ==
  /\ [](backend \in FlatBackends => IsAbsolute(workingDirectory))
  /\ [][(backend \in FlatBackends /\ ret' # ret /\ ret'.fn = "chdir")
          => workingDirectory' = resolve(workingDirectory, ret'.a)]_vars

\* C13: whatever working directory chdir has left and whatever path is
\* asked, resolvePath's key does not begin with '/', and resolving '/' + key
\* under the same working directory gives key again.
C13_ResolveIsRelativeAndIdempotent ==
  (backend \in FlatBackends /\ ret.fn = "resolvePath") =>
     /\ ~IsAbsolute(ret.resolved)
     /\ resolvePath(<<Sep>> \o ret.resolved) = ret.resolved

C13_Witness ==
  /\ backend = "bunnycdn" /\ workingDirectory = <<Sep, "a", Sep, "c">>
  /\ ret.fn = "resolvePath" /\ ret.a = <<".", ".", Sep, ".", ".", Sep, "b">>
  /\ ret.resolved = <<"b">>

\* the scheme a descriptor is written with, none for a bare path
SchemeOf(url) ==
  LET colon == IndexOf(url, {":"}, 1)
      slash == IndexOf(url, {Sep}, 1)
  IN IF colon = 0 \/ (slash # 0 /\ slash < colon) THEN Empty
     ELSE ToLower(SubSeq(url, 1, colon - 1))

\* the path of a descriptor: all of a bare path, what follows the authority otherwise
PathOf(url) ==
  IF SchemeOf(url) = Empty THEN url
  ELSE LET rest == SubSeq(url, Len(SchemeOf(url)) + 4, Len(url))
           slash == IndexOf(rest, {Sep}, 1)
       IN IF slash = 0 THEN Empty ELSE SubSeq(rest, slash, Len(rest))

BackendFor(url) ==
  IF SchemeOf(url) = <<"s", "3">> THEN "s3"
  ELSE IF SchemeOf(url) = <<"a", "z", "u", "r", "e">> THEN "azure"
  ELSE IF SchemeOf(url) = <<"b", "u", "n", "n", "y", "c", "d", "n">> THEN "bunnycdn"
  ELSE "local"

\* C14: fileSystemFromURL never fails and builds the backend the scheme
\* names: S3 for s3:, Azure for azure:, BunnyCDN for bunnycdn:, and Local
\* rooted at the descriptor's path for any other scheme and for a bare path.
C14_FactoryMapsEveryDescriptor ==
  ret.fn = "fileSystemFromURL" =>
     /\ ret.status = "ok"
     /\ backend = BackendFor(ret.a)
     /\ backend = "local" => config.root = PathOf(ret.a)

\* the user name, the password and the host a descriptor is written with
UserinfoOf(url) ==
  LET rest == SubSeq(url, Len(SchemeOf(url)) + 4, Len(url))
      at == IndexOf(rest, {"@"}, 1)
      info == SubSeq(rest, 1, at - 1)
      colon == IndexOf(info, {":"}, 1)
      after == SubSeq(rest, at + 1, Len(rest))
      slash == IndexOf(after, {Sep}, 1)
  IN [username |-> SubSeq(info, 1, colon - 1),
      password |-> SubSeq(info, colon + 1, Len(info)),
      host |-> IF slash = 0 THEN after ELSE SubSeq(after, 1, slash - 1)]

\* C15: the Azure backend the factory builds has the descriptor's user name
\* as its account, the decoded password as its key and the host as its
\* container, none of them undefined.
C15_AzureFieldsFromDescriptor ==
  (ret.fn = "fileSystemFromURL" /\ ret.status = "ok" /\ backend = "azure") =>
     /\ config.azureAccount = UserinfoOf(ret.a).username
     /\ config.azureKey = decodeURIComponent(UserinfoOf(ret.a).password).value
     /\ config.azureContainer = UserinfoOf(ret.a).host
     /\ Undefined \notin {config.azureAccount, config.azureKey, config.azureContainer}

\* C16: a Local ensureDir that is not rejected has made a directory at or
\* below the root, whatever the name: absolute, or with inner '..' segments.
C16_EnsureDirStaysInRoot ==
  (backend = "local" /\ ret.fn = "ensureDir" /\ ret.status = "ok") =>
     AtOrBelow(ret.value[1], RootOf(config))

\* C17: getSignedUrl never fails; on Azure its value is
\* https://<account>.blob.core.windows.net/<container>/<key>?<signature>
\* with key = resolvePath(path) under the working directory of the call, on
\* S3, BunnyCDN and Local its value is false.
C17_SignedUrlIsCapabilityCheck ==
  ret.fn = "getSignedUrl" =>
     /\ ret.status = "ok"
     /\ backend # "azure" => ret.value = <<FalseSignal>>
     /\ backend = "azure" =>
           \E signature \in {generateBlobSASQueryParameters(config.azureContainer, resolvePath(ret.a))} :
              ret.value = << <<"https://">> \o config.azureAccount \o <<".blob.core.windows.net/">>
                              \o config.azureContainer \o <<Sep>> \o resolvePath(ret.a)
                              \o <<"?">> \o signature >>

C17_Witness ==
  /\ backend = "azure" /\ workingDirectory = <<Sep, "a">>
  /\ ret.fn = "getSignedUrl" /\ ret.a = <<"h">>
  /\ config.azureAccount = <<"m">>
  /\ ret.value = << <<"https://", "m", ".blob.core.windows.net/", "k", Sep, "a", Sep, "h", "?",
                      "sr=b", "&sig=", "k", Sep, "a", Sep, "h">> >>

\* C18: on S3, Azure and BunnyCDN a channel whose upload task succeeded has
\* received 'done' and nothing else, one whose task failed 'error' and
\* nothing else, and one whose task is still running nothing.
C18_OneTerminalSignal ==
  \A i \in 1..Len(channels) :
     /\ channels[i].task = "ok" => channels[i].events = <<"done">>
     /\ channels[i].task = "failed" => channels[i].events = <<"error">>
     /\ channels[i].task = "pending" => channels[i].events = << >>

\* C19: a BunnyCDN get(p) that answers has searched a listing that was
\* requested from the directory dirname(p) resolves to under the working
\* directory of the call.
C19_CachedListingIsOfParent ==
  (backend = "bunnycdn" /\ ret.fn = "get" /\ ret.status = "ok") =>
     ret.listed = resolvePath(dirname(ret.a))

\* the last upload a writeFile has started for key
LastUpload(key) ==
  LET I == {i \in 1..Len(channels) : channels[i].key = key}
  IN channels[CHOOSE i \in I : \A j \in I : i >= j]

\* C20: once writeFile(name, content) has resolved its upload has succeeded,
\* and a readFile(name) made from then on (the transport working) returns
\* content.
C20_WriteFileResolvesWhenPersisted ==
  /\ (ret.fn = "writeFile" /\ ret.status = "ok") => LastUpload(ret.resolved).task = "ok"
  /\ (ret.fn = "readFile" /\ ~ret.failed
        /\ \E i \in 1..Len(channels) : channels[i].key = ret.resolved) =>
        /\ ret.status = "ok"
        /\ ret.value = <<LastUpload(ret.resolved).content>>

\* C21: in an Azure rename the source blob is not deleted while a copy out
\* of it is pending: no step removes a blob that a pending copy reads, a
\* pending copy always has its source, and a destination that holds only
\* the placeholder of an unfinished copy still has that copy running, so
\* that there is always a complete source or a complete destination.
C21_DeleteWaitsForCopy ==
  /\ [](backend = "azure" =>
          /\ \A c \in pendingCopy : SizeAt(objects, c.from) # Absent
          /\ \A k \in Keys : objects[k] = 0 => \E c \in pendingCopy : c.to = k)
  /\ [][backend = "azure" =>
          \A k \in Keys : (objects[k] # Absent /\ objects'[k] = Absent)
                              => ~\E c \in pendingCopy : c.from = k]_vars
====
